---- MODULE Spec2Model ----
(***************************************************************************)
(* Model of statsmodels/distributions/copula/copulas.py:                   *)
(*   CopulaDistribution (__init__, rvs, cdf, pdf, logpdf) and the shared   *)
(*   behaviour of the abstract Copula base class (logpdf, fit_corr_param). *)
(*                                                                         *)
(* Marginal distributions and concrete copula families are collaborators   *)
(* outside the file.  A call to one of them is an uninterpreted term: a    *)
(* record that keeps the name of the function, the object it was called    *)
(* on and the arguments it received, so that two results are equal exactly *)
(* when the same function was applied to the same arguments.               *)
(*                                                                         *)
(* Arrays are records [shape, flat] with the elements in row-major order.  *)
(* Python indices i = 0..k-1 are the TLA+ indices 1..k.                    *)
(***************************************************************************)
EXTENDS Integers, Sequences, FiniteSets

\* ------------------------------------------------------------------ bounds
\* largest number of marginals / largest copula dimension
MaxK == 4
\* largest number of rows of an observation matrix, largest nobs
MaxN == 2
\* the uniform draws of a copula sample lie on the grid 0, 1/Grid, ..., 1
Grid == 2
\* number of observations of a data matrix handed to fit_corr_param
DataRows == 3
\* number of calls made on one CopulaDistribution
MaxCalls == 2

\* --------------------------------------------------------- python values
\* an optional argument: omitted (None) or supplied
None == [given |-> FALSE, val |-> <<>>]
Some(v) == [given |-> TRUE, val |-> v]

\* ----------------------------------------------------------------- arrays
Arr(shape, flat) == [shape |-> shape, flat |-> flat]

ndim(a) == Len(a.shape)

LastAxis(a) == a.shape[Len(a.shape)]

\* y[..., 0] whatever i is
TakeLastFirst(a, i) ==
    IF ndim(a) = 1
    THEN Arr(<<>>, <<a.flat[1]>>)
    ELSE Arr(<<a.shape[1]>>,
             [r \in 1..a.shape[1] |-> a.flat[(r - 1) * a.shape[2] + 1]])

\* a[..., i] of a 1-D or 2-D array: a 0-d scalar, or the vector of column i
TakeLast(a, i) ==
    IF ndim(a) = 1
    THEN Arr(<<>>, <<a.flat[i]>>)
    ELSE Arr(<<a.shape[1]>>,
             [r \in 1..a.shape[1] |-> a.flat[(r - 1) * a.shape[2] + i]])

\* numpy.column_stack turns every array of fewer than 2 dimensions into a
\* column (size, 1) before it concatenates along the second axis
AsColumn(a) ==
    IF ndim(a) < 2 THEN Arr(<<Len(a.flat), 1>>, a.flat) ELSE a

RECURSIVE ConcatRow(_, _, _)
ConcatRow(cols, r, j) ==
    IF j > Len(cols) THEN <<>>
    ELSE LET c == cols[j]
             w == c.shape[2]
         IN [x \in 1..w |-> c.flat[(r - 1) * w + x]] \o ConcatRow(cols, r, j + 1)

RECURSIVE ConcatRows(_, _, _)
ConcatRows(cols, r, n) ==
    IF r > n THEN <<>>
    ELSE ConcatRow(cols, r, 1) \o ConcatRows(cols, r + 1, n)

RECURSIVE SumWidth(_)
SumWidth(cols) ==
    IF cols = <<>> THEN 0 ELSE Head(cols).shape[2] + SumWidth(Tail(cols))

column_stack(arrays) ==
    LET cols == [j \in 1..Len(arrays) |-> AsColumn(arrays[j])]
        ok == /\ Len(cols) > 0
              /\ \A j \in 1..Len(cols) : cols[j].shape[1] = cols[1].shape[1]
    IN IF ok
       THEN [ok |-> TRUE,
             arr |-> Arr(<<cols[1].shape[1], SumWidth(cols)>>,
                         ConcatRows(cols, 1, cols[1].shape[1]))]
       ELSE [ok |-> FALSE, arr |-> Arr(<<0>>, <<>>)]

\* the squeeze left out
squeezeNothing(a) == a

\* ndarray.squeeze(): every axis of length one is removed
squeeze(a) == Arr(SelectSeq(a.shape, LAMBDA d : d # 1), a.flat)

\* ---------------------------------------------------------- collaborators
\* marginals[i].fn(x, *args), applied elementwise to the array x
MargValue(fn, m, x, args) == [fn |-> fn, marg |-> m, x |-> x, args |-> args]

MargApply(fn, m, x, args) ==
    Arr(x.shape, [j \in 1..Len(x.flat) |-> MargValue(fn, m, x.flat[j], args)])

\* a python value bound to a parameter: a tuple, or one bare object
PyTuple(t) == [tag |-> "tuple", items |-> t]
PyObject(v) == [tag |-> "object", items |-> <<v>>]

\* one call of a method of the copula family, as the family receives it
CopCall(method, u, args, nobs, rs) ==
    [method |-> method, u |-> u, args |-> args, nobs |-> nobs,
     random_state |-> rs]

\* a concrete family returns one value per row of u
CopulaResultShape(u) ==
    IF ndim(u) = 0 THEN <<>> ELSE SubSeq(u.shape, 1, Len(u.shape) - 1)

\* ------------------------------------------------------------ results
NoRet == [kind |-> "none", shape |-> <<>>, terms |-> <<>>, cop |-> <<>>,
          flat |-> <<>>, tau |-> <<>>]

\* what a call leaves behind: the exception or the returned value, the calls
\* made on the copula, and the objects it assigned to in place
Outcome(e, r, calls) ==
    [err |-> e, ret |-> r, copcalls |-> calls, writes |-> {}]

\* --------------------------------------------- CopulaDistribution helpers
\* "if not cop_args": an empty tuple counts as omitted
ResolveCopArgsFalsy(self, cop_args_in) ==
    IF cop_args_in.val = <<>> THEN self.cop_args ELSE cop_args_in.val

\* "if cop_args is None: cop_args = self.cop_args"
ResolveCopArgs(self, cop_args_in) ==
    IF ~cop_args_in.given THEN self.cop_args ELSE cop_args_in.val

\* the caller's marg_args dropped
ResolveMargArgsYDefault(y, marg_args_in) ==
    [i \in 1..LastAxis(y) |-> <<>>]

\* "if marg_args is None: marg_args = [()] * y.shape[-1]"
ResolveMargArgsY(y, marg_args_in) ==
    IF ~marg_args_in.given
    THEN [i \in 1..LastAxis(y) |-> <<>>]
    ELSE marg_args_in.val

\* shapes of two operands of an elementwise operation (at most 1-D here)
Broadcast(s, t) ==
    IF s = <<>> THEN t
    ELSE IF t = <<>> THEN s
    ELSE IF s[1] = 1 THEN t ELSE s

\* every column goes through the first marginal
RECURSIVE CdfLoopFirstMarginal(_, _, _, _, _)
CdfLoopFirstMarginal(self, y, marg_args, i, cdf_marg) ==
    IF i > self.k_vars THEN [err |-> "none", cdf_marg |-> cdf_marg]
    ELSE IF i > LastAxis(y)
    THEN [err |-> "IndexError: y", cdf_marg |-> cdf_marg]
    ELSE IF i > Len(marg_args)
    THEN [err |-> "IndexError: marg_args", cdf_marg |-> cdf_marg]
    ELSE CdfLoopFirstMarginal(self, y, marg_args, i + 1,
                 Append(cdf_marg,
                        MargApply("cdf", self.marginals[1], TakeLast(y, i),
                                  marg_args[i])))

\* the per-marginal loop of cdf, lines 136-138.  Python evaluates the
\* operands of  self.marginals[i].cdf(y[..., i], *marg_args[i])  from left
\* to right: y[..., i] is indexed before marg_args[i].
RECURSIVE CdfLoop(_, _, _, _, _)
CdfLoop(self, y, marg_args, i, cdf_marg) ==
    IF i > self.k_vars THEN [err |-> "none", cdf_marg |-> cdf_marg]
    ELSE IF i > LastAxis(y)
    THEN [err |-> "IndexError: y", cdf_marg |-> cdf_marg]
    ELSE IF i > Len(marg_args)
    THEN [err |-> "IndexError: marg_args", cdf_marg |-> cdf_marg]
    ELSE CdfLoop(self, y, marg_args, i + 1,
                 Append(cdf_marg,
                        MargApply("cdf", self.marginals[i], TakeLast(y, i),
                                  marg_args[i])))

\* CopulaDistribution.cdf
CdfRun(self, y, cop_args_in, marg_args_in) ==
    LET ca == ResolveCopArgs(self, cop_args_in)
        ma == ResolveMargArgsY(y, marg_args_in)
        loop == CdfLoop(self, y, ma, 1, <<>>)
        st == column_stack(loop.cdf_marg)
        u == IF ndim(y) = 1 THEN squeeze(st.arr) ELSE st.arr
        c == CopCall("cdf", u, PyTuple(ca), 0, None)
    IN IF loop.err # "none" THEN Outcome(loop.err, NoRet, <<>>)
       ELSE IF ~st.ok THEN Outcome("ValueError: column_stack", NoRet, <<>>)
       ELSE Outcome("none",
                    [NoRet EXCEPT !.kind = "copula.cdf",
                                  !.shape = CopulaResultShape(u),
                                  !.cop = <<c>>],
                    <<c>>)

\* "lpdf = ..." in place of "lpdf += ...": only the last summand is kept
RECURSIVE LogpdfLoopAssign(_, _, _, _, _, _)
LogpdfLoopAssign(self, y, marg_args, i, lpdf, cdf_marg) ==
    IF i > self.k_vars
    THEN [err |-> "none", lpdf |-> lpdf, cdf_marg |-> cdf_marg]
    ELSE IF i > LastAxis(y)
    THEN [err |-> "IndexError: y", lpdf |-> lpdf, cdf_marg |-> cdf_marg]
    ELSE IF i > Len(marg_args)
    THEN [err |-> "IndexError: marg_args", lpdf |-> lpdf,
          cdf_marg |-> cdf_marg]
    ELSE LogpdfLoopAssign(self, y, marg_args, i + 1,
                    <<MargApply("logpdf", self.marginals[i],
                                TakeLast(y, i), marg_args[i])>>,
                    Append(cdf_marg,
                           MargApply("cdf", self.marginals[i], TakeLast(y, i),
                                     marg_args[i])))

\* the per-marginal loop of logpdf, lines 202-206
RECURSIVE LogpdfLoop(_, _, _, _, _, _)
LogpdfLoop(self, y, marg_args, i, lpdf, cdf_marg) ==
    IF i > self.k_vars
    THEN [err |-> "none", lpdf |-> lpdf, cdf_marg |-> cdf_marg]
    ELSE IF i > LastAxis(y)
    THEN [err |-> "IndexError: y", lpdf |-> lpdf, cdf_marg |-> cdf_marg]
    ELSE IF i > Len(marg_args)
    THEN [err |-> "IndexError: marg_args", lpdf |-> lpdf,
          cdf_marg |-> cdf_marg]
    ELSE LogpdfLoop(self, y, marg_args, i + 1,
                    Append(lpdf,
                           MargApply("logpdf", self.marginals[i],
                                     TakeLast(y, i), marg_args[i])),
                    Append(cdf_marg,
                           MargApply("cdf", self.marginals[i], TakeLast(y, i),
                                     marg_args[i])))

\* CopulaDistribution.logpdf.  lpdf is the running sum 0.0 + t1 + t2 + ...,
\* kept as the sequence of its summands in the order they were added.
LogpdfRun(self, y, cop_args_in, marg_args_in) ==
    LET ca == ResolveCopArgs(self, cop_args_in)
        ma == ResolveMargArgsY(y, marg_args_in)
        loop == LogpdfLoop(self, y, ma, 1, <<>>, <<>>)
        st == column_stack(loop.cdf_marg)
        u == IF ndim(y) = 1 THEN squeeze(st.arr) ELSE st.arr
        c == CopCall("logpdf", u, PyTuple(ca), 0, None)
    IN IF loop.err # "none" THEN Outcome(loop.err, NoRet, <<>>)
       ELSE IF ~st.ok THEN Outcome("ValueError: column_stack", NoRet, <<>>)
       ELSE Outcome("none",
                    [NoRet EXCEPT !.kind = "sum",
                                  !.shape = Broadcast(loop.lpdf[1].shape,
                                                      CopulaResultShape(u)),
                                  !.terms = loop.lpdf,
                                  !.cop = <<c>>],
                    <<c>>)

\* CopulaDistribution.pdf: np.exp(self.logpdf(...))
PdfRun(self, y, cop_args_in, marg_args_in) ==
    LET l == LogpdfRun(self, y, cop_args_in, marg_args_in)
    IN IF l.err # "none" THEN l
       ELSE [l EXCEPT !.ret.kind = "exp(sum)"]

\* ------------------------------------------------------ numbers of rvs
\* A real number (a + b * 1e-10) / (2 * Grid) with integers a and b.  The
\* numbers rvs computes all have this form, and |b| stays far below 1e10,
\* so the sign of a number is decided by a, and by b when a = 0.
Num(a, b) == [a |-> a, b |-> b]

\* the literal 0.5
Half == Num(Grid, 0)

\* the uniform value n / Grid
GridValue(n) == Num(2 * n, 0)

NumAdd(x, y) == Num(x.a + y.a, x.b + y.b)

NumSub(x, y) == Num(x.a - y.a, x.b - y.b)

\* (c + d * 1e-10) * x for a number x without a 1e-10 part (x.b = 0)
NumScale(f, x) == Num(f.c * x.a, f.c * x.b + f.d * x.a)

NumPositive(x) == x.a > 0 \/ (x.a = 0 /\ x.b > 0)

NumBelowOne(x) == NumPositive(Num(2 * Grid - x.a, 0 - x.b))

\* the literal factor (1 - 1e-10)
Contraction == [c |-> 1, d |-> -1]

\* the draw handed to ppf as it is
ContractNot(u) == u

\* 0.5 + (1 - 1e-10) * (u - 0.5), line 101
Contract(u) == NumAdd(Half, NumScale(Contraction, NumSub(u, Half)))

\* an element of a sample matrix: a uniform draw of the copula, or the
\* value of marginal marg's ppf at q with parameters args
UniformElem(n) ==
    [scale |-> "uniform", marg |-> 0, q |-> GridValue(n), args |-> <<>>]

PpfValue(m, q, args) ==
    [scale |-> "marginal", marg |-> m, q |-> q, args |-> args]

\* the family's rvs(nobs, args, random_state): an (nobs, k_dim) matrix of
\* draws, here on the closed interval [0, 1] with both ends taken; draw is
\* the entropy taken from the generator
CopulaDraw(nobs, k_dim, draw) ==
    Arr(<<nobs, k_dim>>,
        [x \in 1..(nobs * k_dim) |->
            UniformElem((draw + ((x - 1) \div k_dim) + ((x - 1) % k_dim))
                        % (Grid + 1))])

\* "if marg_args is None: marg_args = [()] * self.k_vars"
ResolveMargArgsRvs(self, marg_args_in) ==
    IF ~marg_args_in.given
    THEN [i \in 1..self.k_vars |-> <<>>]
    ELSE marg_args_in.val

\* every column computed from sample[:, 0]
WriteColumnFromFirst(sample, i, dist, args) ==
    Arr(sample.shape,
        [x \in 1..Len(sample.flat) |->
            IF ((x - 1) % sample.shape[2]) + 1 = i
            THEN PpfValue(dist, Contract(sample.flat[x - (i - 1)].q), args)
            ELSE sample.flat[x]])

\* sample[:, i] = dist.ppf(0.5 + (1 - 1e-10) * (sample[:, i] - 0.5),
\*                         *marg_args[i])
WriteColumn(sample, i, dist, args) ==
    Arr(sample.shape,
        [x \in 1..Len(sample.flat) |->
            IF ((x - 1) % sample.shape[2]) + 1 = i
            THEN PpfValue(dist, Contract(sample.flat[x].q), args)
            ELSE sample.flat[x]])

\* "for i, dist in enumerate(self.marginals)", lines 100-102
RECURSIVE RvsLoop(_, _, _, _)
RvsLoop(self, marg_args, i, sample) ==
    IF i > Len(self.marginals)
    THEN [err |-> "none", sample |-> sample, columns |-> i - 1]
    ELSE IF i > sample.shape[2]
    THEN [err |-> "IndexError: sample", sample |-> sample, columns |-> i - 1]
    ELSE IF i > Len(marg_args)
    THEN [err |-> "IndexError: marg_args", sample |-> sample,
          columns |-> i - 1]
    ELSE RvsLoop(self, marg_args, i + 1,
                 WriteColumn(sample, i, self.marginals[i], marg_args[i]))

\* CopulaDistribution.rvs.  The assignment to sample[:, i] is the only one
\* in place, and sample is the array the copula returned.
RvsRun(self, nobs, cop_args_in, marg_args_in, random_state, draw) ==
    LET ca == ResolveCopArgs(self, cop_args_in)
        ma == ResolveMargArgsRvs(self, marg_args_in)
        c == CopCall("rvs", Arr(<<0>>, <<>>), PyTuple(ca), nobs, random_state)
        loop == RvsLoop(self, ma, 1,
                        CopulaDraw(nobs, self.copula.k_dim, draw))
        w == IF loop.columns > 0 THEN {"sample"} ELSE {}
    IN IF loop.err # "none"
       THEN [Outcome(loop.err, NoRet, <<c>>) EXCEPT !.writes = w]
       ELSE [Outcome("none",
                     [NoRet EXCEPT !.kind = "sample",
                                   !.shape = loop.sample.shape,
                                   !.flat = loop.sample.flat],
                     <<c>>) EXCEPT !.writes = w]

\* ------------------------------------------------------------- Copula
\* binding of the positional arguments that follow u to the parameters of
\* "def pdf(self, u, args=())"
BindPdf(extra) ==
    IF Len(extra) = 0 THEN [ok |-> TRUE, args |-> PyTuple(<<>>)]
    ELSE IF Len(extra) = 1 THEN [ok |-> TRUE, args |-> PyObject(extra[1])]
    ELSE [ok |-> FALSE, args |-> PyTuple(<<>>)]

\* the arguments Copula.logpdf passes after u: "self.pdf(u, *args)"
LogpdfPassesToPdf(args) == args

\* Copula.logpdf: np.log(self.pdf(u, *args))
CopulaLogpdfRun(u, args) ==
    LET b == BindPdf(LogpdfPassesToPdf(args))
        c == CopCall("pdf", u, b.args, 0, None)
    IN IF ~b.ok THEN Outcome("TypeError: pdf", NoRet, <<>>)
       ELSE Outcome("none",
                    [NoRet EXCEPT !.kind = "log(pdf)",
                                  !.shape = CopulaResultShape(u),
                                  !.cop = <<c>>],
                    <<c>>)

\* --- rationals, for Kendall's tau
RECURSIVE GCD(_, _)
GCD(a, b) == IF b = 0 THEN a ELSE GCD(b, a % b)

Abs(a) == IF a < 0 THEN 0 - a ELSE a

Rat(n, d) ==
    LET g == GCD(Abs(n), Abs(d))
        s == IF d < 0 THEN -1 ELSE 1
    IN [num |-> (s * n) \div g, den |-> (s * d) \div g]

RatAdd(x, y) == Rat(x.num * y.den + y.num * x.den, x.den * y.den)

RECURSIVE RatSum(_)
RatSum(s) == IF s = <<>> THEN Rat(0, 1) ELSE RatAdd(Head(s), RatSum(Tail(s)))

\* numpy.mean of a non-empty list
mean(s) == LET t == RatSum(s) IN Rat(t.num, t.den * Len(s))

Sign(a) == IF a > 0 THEN 1 ELSE IF a < 0 THEN -1 ELSE 0

RECURSIVE ConcordanceSum(_, _, _, _)
ConcordanceSum(x, y, r, s) ==
    IF r > Len(x) THEN 0
    ELSE IF s > Len(x) THEN ConcordanceSum(x, y, r + 1, r + 2)
    ELSE Sign(x[r] - x[s]) * Sign(y[r] - y[s])
         + ConcordanceSum(x, y, r, s + 1)

\* scipy.stats.kendalltau(x, y)[0] of two vectors without ties:
\* (concordant - discordant) / (n (n - 1) / 2)
kendalltau(x, y) ==
    Rat(ConcordanceSum(x, y, 1, 2), (Len(x) * (Len(x) - 1)) \div 2)

\* x[..., i] of a data matrix, as a sequence
Column(x, i) == TakeLast(x, i).flat

\* "for j in range(i, k)": a variable is paired with itself
RECURSIVE PairListFromI(_, _, _)
PairListFromI(k, i, j) ==
    IF i > k THEN <<>>
    ELSE IF j > k THEN PairListFromI(k, i + 1, i + 1)
    ELSE <<(<<i, j>>)>> \o PairListFromI(k, i, j + 1)

\* the index pairs of
\* "for i in range(k) for j in range(i+1, k)", in the order of the loops
RECURSIVE PairList(_, _, _)
PairList(k, i, j) ==
    IF i > k THEN <<>>
    ELSE IF j > k THEN PairList(k, i + 1, i + 2)
    ELSE <<(<<i, j>>)>> \o PairList(k, i, j + 1)

\* Copula.fit_corr_param; the value of the hook _arg_from_tau(tau) is the
\* uninterpreted term that keeps tau
FitCorrParamRun(self_copula, x) ==
    LET k == self_copula.k_dim
        pairs == PairList(k, 1, 2)
        taus == [p \in 1..Len(pairs) |->
                    kendalltau(Column(x, pairs[p][1]), Column(x, pairs[p][2]))]
        hook(tau) == Outcome("none",
                             [NoRet EXCEPT !.kind = "_arg_from_tau",
                                           !.tau = <<tau>>],
                             <<>>)
    IN IF x.shape[2] = 2
       THEN hook(kendalltau(Column(x, 1), Column(x, 2)))
       ELSE IF \E p \in 1..Len(pairs) : pairs[p][2] > x.shape[2]
       THEN Outcome("IndexError: x", NoRet, <<>>)
       ELSE hook(mean(taus))

\* ------------------------------------------------------------- inputs
\* y with distinct entries: row r, column c holds 10 r + c
Observation(shape) ==
    LET L == shape[Len(shape)]
    IN Arr(shape,
           [x \in 1..(IF Len(shape) = 1 THEN L ELSE shape[1] * L) |->
               10 * (((x - 1) \div L) + 1) + ((x - 1) % L) + 1])

\* flat vectors and matrices, the last axis shorter than, equal to and
\* longer than the number of marginals
Observations ==
    {Observation(<<L>>) : L \in 1..(MaxK + 1)}
    \cup {Observation(<<n, L>>) : n \in 1..MaxN, L \in 1..(MaxK + 1)}

CtorCopArgs == {<<>>, <<1>>, <<1, 2>>}

CopArgsIn == {None, Some(<<>>), Some(<<5>>), Some(<<5, 6>>)}

\* omitted, or a list of 0..MaxK+1 parameter tuples; entry i is (200 + i,)
MargArgsIn ==
    {None} \cup {Some([i \in 1..m |-> <<200 + i>>]) : m \in 0..(MaxK + 1)}

\* None (the process-wide generator) or an integer seed
RandomStates == {None, Some(<<0>>), Some(<<1>>)}

\* columns of a data matrix without ties
DataColumns ==
    {[r \in 1..DataRows |-> r],
     [r \in 1..DataRows |-> DataRows + 1 - r],
     [r \in 1..DataRows |-> IF r = 1 THEN 2 ELSE IF r = 2 THEN 1 ELSE r]}

DataMatrix(cols) ==
    Arr(<<DataRows, Len(cols)>>,
        [x \in 1..(DataRows * Len(cols)) |->
            cols[((x - 1) % Len(cols)) + 1][((x - 1) \div Len(cols)) + 1]])

DataMatrices ==
    UNION {{DataMatrix(cols) : cols \in [1..w -> DataColumns]} :
           w \in 2..(MaxK + 1)}

NoArr == Arr(<<0>>, <<>>)

NoCall == [op |-> "none", y |-> NoArr, cop_args |-> None, marg_args |-> None,
           nobs |-> 0, random_state |-> None, draw |-> 0, u |-> NoArr,
           args |-> <<>>, data |-> NoArr]

\* -------------------------------------------------------------- state
VARIABLES
    copula,      \* self.copula: the family object, with its k_dim
    marginals,   \* self.marginals
    cop_args,    \* self.cop_args
    k_vars,      \* self.k_vars
    ctor,        \* the values __init__ stored
    pc,          \* "idle", "returned" or "raised"
    call,        \* the operation in progress or just finished, and its inputs
    err,         \* the exception the call raised, "none" otherwise
    ret,         \* the value the call returned
    copcalls,    \* the calls the operation made on the copula family
    writes,      \* the objects the operation assigned to in place
    ncalls       \* calls made so far

vars == <<copula, marginals, cop_args, k_vars, ctor, pc, call, err, ret,
          copcalls, writes, ncalls>>

Self == [copula |-> copula, marginals |-> marginals, cop_args |-> cop_args,
         k_vars |-> k_vars]

\* CopulaDistribution.__init__(copula, marginals, cop_args); a copula has
\* at least two dimensions, one per marginal
Init ==
    \E k \in 2..MaxK, ca \in CtorCopArgs :
        /\ copula = [k_dim |-> k]
        /\ marginals = [i \in 1..k |-> 100 + i]
        /\ cop_args = ca
        /\ k_vars = k
        /\ ctor = [copula |-> [k_dim |-> k],
                   marginals |-> [i \in 1..k |-> 100 + i],
                   cop_args |-> ca, k_vars |-> k]
        /\ pc = "idle"
        /\ call = NoCall
        /\ err = "none"
        /\ ret = NoRet
        /\ copcalls = <<>>
        /\ writes = {}
        /\ ncalls = 0

\* the effect of a call: none of the methods assigns to an attribute of self
Finish(c, out) ==
    /\ call' = c
    /\ err' = out.err
    /\ ret' = out.ret
    /\ copcalls' = out.copcalls
    /\ writes' = out.writes
    /\ pc' = IF out.err = "none" THEN "returned" ELSE "raised"
    /\ ncalls' = ncalls + 1
    /\ UNCHANGED <<copula, marginals, cop_args, k_vars, ctor>>

CanCall == pc = "idle" /\ ncalls < MaxCalls

rvs ==
    /\ CanCall
    /\ \E nobs \in 1..MaxN, ca \in CopArgsIn, ma \in MargArgsIn,
          rs \in RandomStates, draw \in 0..Grid :
        /\ rs.given => draw = rs.val[1] % (Grid + 1)
        /\ Finish([NoCall EXCEPT !.op = "rvs", !.nobs = nobs, !.cop_args = ca,
                                 !.marg_args = ma, !.random_state = rs,
                                 !.draw = draw],
                  RvsRun(Self, nobs, ca, ma, rs, draw))

cdf ==
    /\ CanCall
    /\ \E y \in Observations, ca \in CopArgsIn, ma \in MargArgsIn :
        Finish([NoCall EXCEPT !.op = "cdf", !.y = y, !.cop_args = ca,
                              !.marg_args = ma],
               CdfRun(Self, y, ca, ma))

pdf ==
    /\ CanCall
    /\ \E y \in Observations, ca \in CopArgsIn, ma \in MargArgsIn :
        Finish([NoCall EXCEPT !.op = "pdf", !.y = y, !.cop_args = ca,
                              !.marg_args = ma],
               PdfRun(Self, y, ca, ma))

logpdf ==
    /\ CanCall
    /\ \E y \in Observations, ca \in CopArgsIn, ma \in MargArgsIn :
        Finish([NoCall EXCEPT !.op = "logpdf", !.y = y, !.cop_args = ca,
                              !.marg_args = ma],
               LogpdfRun(Self, y, ca, ma))

\* self.copula.logpdf(u, args) of a family that does not override logpdf
Copula_logpdf ==
    /\ CanCall
    /\ \E n \in 1..MaxN, args \in CtorCopArgs \cup {<<5, 6, 7>>} :
        LET u == Observation(<<n, copula.k_dim>>)
        IN Finish([NoCall EXCEPT !.op = "Copula.logpdf", !.u = u,
                                 !.args = args],
                  CopulaLogpdfRun(u, args))

\* self.copula.fit_corr_param(data)
fit_corr_param ==
    /\ CanCall
    /\ \E data \in DataMatrices :
        Finish([NoCall EXCEPT !.op = "fit_corr_param", !.data = data],
               FitCorrParamRun(copula, data))

\* the caller takes the result (or the exception) and goes on
Return ==
    /\ pc # "idle"
    /\ pc' = "idle"
    /\ call' = NoCall
    /\ err' = "none"
    /\ ret' = NoRet
    /\ copcalls' = <<>>
    /\ writes' = {}
    /\ UNCHANGED <<copula, marginals, cop_args, k_vars, ctor, ncalls>>

Next ==
    \/ rvs
    \/ cdf
    \/ pdf
    \/ logpdf
    \/ Copula_logpdf
    \/ fit_corr_param
    \/ Return

Spec == Init /\ [][Next]_vars

\* ===================================================================
\* Properties
\* ===================================================================
YOps == {"cdf", "pdf", "logpdf"}

Done == pc # "idle"

\* the parameters of marginal i that the caller asked for: marg_args[i],
\* no parameters when marg_args is omitted
WantedMargArgs(i) ==
    IF call.marg_args.given THEN call.marg_args.val[i] ELSE <<>>

\* the copula parameters the caller asked for
WantedCopArgs ==
    IF call.cop_args.given THEN call.cop_args.val ELSE ctor.cop_args

\* marg_args is omitted or has an entry for each of the marginals
MargArgsCoverMarginals ==
    ~call.marg_args.given \/ Len(call.marg_args.val) >= k_vars

Rows(y) == IF ndim(y) = 1 THEN 1 ELSE y.shape[1]

\* entry (r, c) of y, for a flat vector r = 1
At(y, r, c) == y.flat[(r - 1) * LastAxis(y) + c]

\* the uniform-margin array: entry (r, i) is marginals[i].cdf(y[r, i],
\* *marg_args[i]); a flat y gives a flat vector
ExpectedU(y) ==
    Arr(IF ndim(y) = 1 THEN <<k_vars>> ELSE <<y.shape[1], k_vars>>,
        [x \in 1..(Rows(y) * k_vars) |->
            LET r == ((x - 1) \div k_vars) + 1
                c == ((x - 1) % k_vars) + 1
            IN MargValue("cdf", ctor.marginals[c], At(y, r, c),
                         WantedMargArgs(c))])

\* marginals[i].logpdf(y[..., i], *marg_args[i])
ExpectedLogpdfTerm(y, i) ==
    Arr(IF ndim(y) = 1 THEN <<>> ELSE <<y.shape[1]>>,
        [r \in 1..Rows(y) |->
            MargValue("logpdf", ctor.marginals[i], At(y, r, i),
                      WantedMargArgs(i))])

\* C1: for y with last-axis size k_vars, logpdf returns the sum of the
\* marginal log-densities marginals[i].logpdf(y[..., i], *marg_args[i]),
\* one summand per marginal i, plus copula.logpdf(u, cop_args), where column
\* i of u is marginals[i].cdf(y[..., i], *marg_args[i]).
C1_SklarLogpdf ==
    (Done /\ call.op = "logpdf" /\ LastAxis(call.y) = k_vars
          /\ MargArgsCoverMarginals)
    => /\ pc = "returned"
       /\ ret.kind = "sum"
       /\ Len(ret.terms) = k_vars
       /\ \A i \in 1..k_vars : ret.terms[i] = ExpectedLogpdfTerm(call.y, i)
       /\ ret.cop = <<CopCall("logpdf", ExpectedU(call.y),
                              PyTuple(WantedCopArgs), 0, None)>>

C1_Witness ==
    /\ pc = "returned" /\ call.op = "logpdf"
    /\ k_vars = 3 /\ call.y.shape = <<2, 3>>
    /\ call.marg_args.given /\ Len(call.marg_args.val) = 3
    /\ call.cop_args = Some(<<5>>)
    /\ Len(ret.terms) = 3

\* C2: for y with last-axis size k_vars, cdf calls the copula's cdf exactly
\* once, with u and the resolved cop_args, and returns its value unmodified;
\* column i of u is marginals[i].cdf(y[..., i], *marg_args[i]).
C2_CdfDelegates ==
    (Done /\ call.op = "cdf" /\ LastAxis(call.y) = k_vars
          /\ MargArgsCoverMarginals)
    => /\ pc = "returned"
       /\ copcalls = <<CopCall("cdf", ExpectedU(call.y),
                               PyTuple(WantedCopArgs), 0, None)>>
       /\ ret.kind = "copula.cdf"
       /\ ret.cop = copcalls
       /\ ret.terms = <<>>

C2_Witness ==
    /\ pc = "returned" /\ call.op = "cdf"
    /\ k_vars = 3 /\ call.y.shape = <<2, 3>>
    /\ call.marg_args.given /\ Len(call.marg_args.val) = 3
    /\ ~call.cop_args.given /\ ctor.cop_args = <<1, 2>>
    /\ Len(copcalls) = 1

\* C3: Copula.logpdf(u, args) is the log of pdf(u, args): the family's pdf
\* is called with the same u and receives the same args tuple as its args
\* parameter, for args of length 0, 1 or more.
C3_LogpdfCallsPdfWithArgs ==
    (Done /\ call.op = "Copula.logpdf")
    => /\ pc = "returned"
       /\ ret.kind = "log(pdf)"
       /\ copcalls = <<CopCall("pdf", call.u, PyTuple(call.args), 0, None)>>
       /\ ret.cop = copcalls

\* the uniform draw n / Grid at row-major position x of the copula sample
DrawAt(x) ==
    (call.draw + ((x - 1) \div k_vars) + ((x - 1) % k_vars)) % (Grid + 1)

\* C4: in rvs, a draw u in [0, 1], 0 and 1 included, reaches the marginal's
\* ppf as 0.5 + (1 - 1e-10) * (u - 0.5), that is
\* (2 n + (Grid - 2 n) * 1e-10) / (2 Grid) for u = n / Grid, which lies
\* strictly between 0 and 1; so a ppf that is finite on the open interval
\* (0, 1) is never evaluated where it is infinite or NaN.
C4_BoundarySafety ==
    (pc = "returned" /\ call.op = "rvs")
    => \A x \in 1..Len(ret.flat) :
          /\ ret.flat[x].scale = "marginal"
          /\ ret.flat[x].q = Num(2 * DrawAt(x), Grid - 2 * DrawAt(x))
          /\ NumPositive(ret.flat[x].q)
          /\ NumBelowOne(ret.flat[x].q)

C4_Witness ==
    /\ pc = "returned" /\ call.op = "rvs" /\ call.nobs >= 1
    /\ \E x \in 1..Len(ret.flat) : DrawAt(x) = 0
    /\ \E x \in 1..Len(ret.flat) : DrawAt(x) = Grid

RECURSIVE TauSum(_, _)
TauSum(x, pairs) ==
    IF pairs = {} THEN Rat(0, 1)
    ELSE LET p == CHOOSE q \in pairs : TRUE
         IN RatAdd(kendalltau(Column(x, p[1]), Column(x, p[2])),
                   TauSum(x, pairs \ {p}))

\* the arithmetic mean of tau over the unordered pairs {i, j}, i < j, of the
\* first w variables, each pair once
MeanTau(x, w) ==
    LET pairs == {p \in (1..w) \X (1..w) : p[1] < p[2]}
        t == TauSum(x, pairs)
    IN Rat(t.num, t.den * Cardinality(pairs))

\* the tau the claim hands to _arg_from_tau
ClaimedTau(k_dim, x) ==
    IF k_dim = 2 THEN kendalltau(Column(x, 1), Column(x, 2))
    ELSE MeanTau(x, x.shape[2])

\* C6 as stated: for every data matrix with at least 2 columns,
\* fit_corr_param returns _arg_from_tau(tau) with tau chosen by the copula's
\* k_dim: the tau of columns 0 and 1 if k_dim = 2, the mean of tau over all
\* unordered pairs of the data's variables if k_dim > 2.
C6_Original ==
    (Done /\ call.op = "fit_corr_param")
    => /\ pc = "returned"
       /\ ret.kind = "_arg_from_tau"
       /\ ret.tau = <<ClaimedTau(copula.k_dim, call.data)>>

\* C6 amended: for a data matrix with exactly k_dim columns fit_corr_param
\* returns _arg_from_tau(tau) with the tau of the claim.  The branch is
\* taken on the number of columns of the data: with 2 columns tau is the
\* tau of columns 0 and 1 whatever k_dim is; otherwise it is the mean over
\* the pairs i < j < k_dim, which fails with an index error when k_dim
\* exceeds the number of columns.
C6_FitCorrParam ==
    (Done /\ call.op = "fit_corr_param")
    => LET x == call.data
           w == x.shape[2]
           k == copula.k_dim
       IN /\ w = k
             => pc = "returned" /\ ret.kind = "_arg_from_tau"
                /\ ret.tau = <<ClaimedTau(k, x)>>
          /\ w = 2
             => pc = "returned"
                /\ ret.tau = <<kendalltau(Column(x, 1), Column(x, 2))>>
          /\ (w # 2 /\ k <= w)
             => pc = "returned" /\ ret.tau = <<MeanTau(x, k)>>
          /\ (w # 2 /\ k > w)
             => pc = "raised" /\ err = "IndexError: x"

C6_Witness ==
    /\ pc = "returned" /\ call.op = "fit_corr_param"
    /\ copula.k_dim = 3 /\ call.data.shape[2] = 3
    /\ ret.tau = <<MeanTau(call.data, 3)>>
    /\ ret.tau # <<kendalltau(Column(call.data, 1), Column(call.data, 2))>>

\* C7 as stated: when y's last-axis size differs from k_vars, cdf, pdf and
\* logpdf fail with a shape failure raised at the column-stacking step.
C7_Original ==
    (Done /\ call.op \in YOps /\ LastAxis(call.y) # k_vars)
    => pc = "raised" /\ err = "ValueError: column_stack"

\* C7 amended: when y's last-axis size is smaller than k_vars, cdf, pdf and
\* logpdf return no value: they fail with an index failure inside the
\* per-marginal loop, at y[..., i] unless a marg_args list shorter than y's
\* last axis fails first, and the copula is never called.  When the size is
\* larger than k_vars and marg_args covers the marginals, the call returns
\* a value computed from the first k_vars columns of y; the column-stacking
\* step does not fail.
C7_LastAxisMismatch ==
    (Done /\ call.op \in YOps)
    => /\ LastAxis(call.y) < k_vars
          => /\ pc = "raised"
             /\ err \in {"IndexError: y", "IndexError: marg_args"}
             /\ (~call.marg_args.given
                 \/ Len(call.marg_args.val) >= LastAxis(call.y))
                => err = "IndexError: y"
             /\ copcalls = <<>>
       /\ (LastAxis(call.y) > k_vars /\ MargArgsCoverMarginals)
          => /\ pc = "returned"
             /\ Len(copcalls) = 1
             /\ copcalls[1].u = ExpectedU(call.y)
       /\ err # "ValueError: column_stack"

C7_Witness ==
    /\ pc = "returned" /\ call.op = "logpdf"
    /\ k_vars = 2 /\ call.y.shape = <<2, 3>>
    /\ copcalls[1].u.shape = <<2, 2>>

\* C8 as stated: a caller-supplied marg_args list whose length differs from
\* k_vars makes rvs, cdf, pdf and logpdf raise an index failure at
\* marg_args[i] (y of the right size).
C8_Original ==
    (Done /\ call.op \in YOps \cup {"rvs"} /\ call.marg_args.given
          /\ Len(call.marg_args.val) # k_vars
          /\ (call.op \in YOps => LastAxis(call.y) = k_vars))
    => pc = "raised" /\ err = "IndexError: marg_args"

\* C8 amended: a caller-supplied marg_args list shorter than k_vars makes
\* rvs, cdf, pdf and logpdf (y of the right size) raise an index failure at
\* marg_args[i]; nothing is validated before the loop, rvs has drawn the
\* copula sample by then.  A list longer than k_vars raises nothing: the
\* call returns and the entries after the first k_vars are not used.
C8_MargArgsLength ==
    (Done /\ call.op \in YOps \cup {"rvs"} /\ call.marg_args.given
          /\ (call.op \in YOps => LastAxis(call.y) = k_vars))
    => /\ Len(call.marg_args.val) < k_vars
          => /\ pc = "raised"
             /\ err = "IndexError: marg_args"
             /\ ret = NoRet
             /\ Len(copcalls) = IF call.op = "rvs" THEN 1 ELSE 0
       /\ Len(call.marg_args.val) > k_vars
          => /\ pc = "returned"
             /\ call.op \in YOps => copcalls[1].u = ExpectedU(call.y)
             /\ call.op = "rvs"
                => \A x \in 1..Len(ret.flat) :
                      ret.flat[x].args
                         = call.marg_args.val[((x - 1) % k_vars) + 1]

C8_Witness ==
    /\ pc = "raised" /\ call.op = "rvs"
    /\ call.marg_args.given
    /\ Len(call.marg_args.val) = k_vars - 1
    /\ err = "IndexError: marg_args"
    /\ Len(copcalls) = 1

\* C9: after any sequence of calls the attributes copula, marginals,
\* cop_args and k_vars have their constructor-time values and no call has
\* assigned in place to self or to the caller's y, cop_args or marg_args;
\* in every call the cop_args the copula receives is the call's own
\* cop_args when supplied, an empty tuple included, and the
\* constructor-time cop_args when omitted, whatever the earlier calls were.
C9_NoSideEffects ==
    /\ copula = ctor.copula
    /\ marginals = ctor.marginals
    /\ cop_args = ctor.cop_args
    /\ k_vars = ctor.k_vars
    /\ writes \cap {"self", "y", "cop_args", "marg_args"} = {}
    /\ \A j \in 1..Len(copcalls) :
          copcalls[j].method \in {"rvs", "cdf", "logpdf"}
          => copcalls[j].args
                = PyTuple(IF call.cop_args.given THEN call.cop_args.val
                          ELSE ctor.cop_args)

C9_Witness ==
    /\ ncalls = 2 /\ pc = "returned" /\ call.op = "rvs"
    /\ call.cop_args = Some(<<>>)
    /\ ctor.cop_args = <<1, 2>>
    /\ copcalls[1].args = PyTuple(<<>>)

\* C10: rvs calls copula.rvs exactly once, with nobs, the resolved cop_args
\* and the caller's random_state, and returns an (nobs, k_vars) matrix whose
\* column i is marginals[i].ppf of (the contraction of) column i of that
\* sample with the parameters marg_args[i], no parameters when marg_args is
\* omitted; no column stays on the uniform scale or goes through another
\* marginal.
C10_RvsColumns ==
    (Done /\ call.op = "rvs")
    => /\ copcalls = <<CopCall("rvs", NoArr, PyTuple(WantedCopArgs),
                               call.nobs, call.random_state)>>
       /\ MargArgsCoverMarginals => pc = "returned"
       /\ pc = "returned"
          => /\ ret.kind = "sample"
             /\ ret.shape = <<call.nobs, k_vars>>
             /\ Len(ret.flat) = call.nobs * k_vars
             /\ \A x \in 1..Len(ret.flat) :
                   LET i == ((x - 1) % k_vars) + 1
                   IN ret.flat[x] = PpfValue(ctor.marginals[i],
                                             Contract(GridValue(DrawAt(x))),
                                             WantedMargArgs(i))

C10_Witness ==
    /\ pc = "returned" /\ call.op = "rvs"
    /\ k_vars = 3 /\ call.nobs = 2
    /\ call.marg_args.given /\ Len(call.marg_args.val) = 3
    /\ call.random_state = Some(<<1>>)
    /\ ret.shape = <<2, 3>>

====
